---- MODULE Spec2Model ----
(***************************************************************************)
(* Model of update_data.py: fetch -> parse -> merge -> serialize -> patch. *)
(* Texts (the API response, cells, the serialized block, index.html) are   *)
(* sequences of one-character strings.  Floats in the accepted range are   *)
(* kept as integers counted in tenths (round(value, 1) has one decimal).   *)
(***************************************************************************)
EXTENDS Integers, Sequences, FiniteSets, TLC

VARIABLES
    pc,            \* position of the run: "fetch", "parse", "parsed", "main", "patch", "exit"
    response,      \* what the API answers: [ok, text]; ~ok when urlopen or decode raises
    raw,           \* fetch_data's local: the decoded response text
    current_year,  \* datetime.now().year
    today,         \* datetime.now() date, [d, m, y]
    sep_idx,       \* index of the delimiter candidate the for loop is at
    data,          \* fetch_data's dict, year -> tenths
    api_data,      \* value returned by fetch_data / argument of build_raw_block
    combined,      \* build_raw_block's dict
    lines,         \* build_raw_block's list, kept as records [year, value, comment]
    new_block,     \* text returned by build_raw_block
    file,          \* content of index.html
    readable,      \* whether index.html can be opened for reading
    writable,      \* whether index.html can be opened for writing
    html,          \* update_html's local: the text read
    new_html,      \* update_html's local: the text after re.sub
    ret,           \* what the last update_html call returned: "True", "False", "OSError" (raised)
    reads,         \* number of times index.html was opened for reading
    writes,        \* number of times index.html was written
    stderr,        \* diagnostics printed to sys.stderr, in order
    exit_status,   \* <<>> while the process runs, then <<status>>
    calls,         \* number of update_html calls made
    log            \* the update_html calls made so far, one record each

vars == <<pc, response, raw, current_year, today, sep_idx, data, api_data, combined, lines,
          new_block, file, readable, writable, html, new_html, ret, reads, writes, stderr,
          exit_status, calls, log>>

None == "None"
NoResponse == [ok |-> FALSE, text |-> <<>>]
Answer(t) == [ok |-> TRUE, text |-> t]

\* ------------------------------------------------------------------ texts

RECURSIVE Concat(_)
Concat(ss) == IF ss = <<>> THEN <<>> ELSE Head(ss) \o Concat(Tail(ss))

Digits == <<"0", "1", "2", "3", "4", "5", "6", "7", "8", "9">>
DigitSet == {Digits[i] : i \in 1..10}
DigitVal(c) == (CHOOSE i \in 1..10 : Digits[i] = c) - 1
Whitespace == {" ", "\t", "\n", "\r"}

RECURSIVE StripLeft(_, _)
StripLeft(s, cs) ==
    IF s # <<>> /\ Head(s) \in cs THEN StripLeft(Tail(s), cs) ELSE s

RECURSIVE StripRight(_, _)
StripRight(s, cs) ==
    IF s # <<>> /\ s[Len(s)] \in cs THEN StripRight(SubSeq(s, 1, Len(s) - 1), cs) ELSE s

\* str.strip(chars)
Strip(s, cs) == StripRight(StripLeft(s, cs), cs)

\* str.replace(",", ".")
ReplaceComma(s) == [i \in 1..Len(s) |-> IF s[i] = "," THEN "." ELSE s[i]]

RECURSIVE Pow10(_)
Pow10(k) == IF k = 0 THEN 1 ELSE 10 * Pow10(k - 1)

\* The number a digit string denotes.  Python integers are unbounded; here a
\* number of more than eight digits stops growing, which keeps it above every
\* year and value it is compared with.
RECURSIVE DigitsValue(_, _)
DigitsValue(s, acc) ==
    IF s = <<>> \/ acc >= Pow10(8) THEN acc
    ELSE DigitsValue(Tail(s), 10 * acc + DigitVal(Head(s)))

AllDigits(s) == \A i \in 1..Len(s) : s[i] \in DigitSet

\* int(s): surrounding whitespace, an optional sign, one or more digits.
\* [ok |-> FALSE] stands for ValueError.
ParseInt(s) ==
    LET t == Strip(s, Whitespace)
        signed == t # <<>> /\ Head(t) \in {"+", "-"}
        body == IF signed THEN Tail(t) ELSE t
    IN  IF body # <<>> /\ AllDigits(body)
        THEN [ok |-> TRUE,
              val |-> IF signed /\ Head(t) = "-" THEN 0 - DigitsValue(body, 0)
                      ELSE DigitsValue(body, 0)]
        ELSE [ok |-> FALSE, val |-> 0]

\* float(s) for plain decimal notation: surrounding whitespace, an optional
\* sign, digits with an optional "." (at least one digit on either side).
\* The value is (neg ? -1 : 1) * num / den with den a power of ten.  An
\* integer part above 100 is out of every accepted range whatever follows
\* it, so its fraction is dropped; fractions have at most four digits.
ParseFloat(s) ==
    LET t == Strip(s, Whitespace)
        signed == t # <<>> /\ Head(t) \in {"+", "-"}
        body == IF signed THEN Tail(t) ELSE t
        dots == {i \in 1..Len(body) : body[i] = "."}
        dot == IF dots = {} THEN Len(body) + 1 ELSE CHOOSE i \in dots : TRUE
        ip == SubSeq(body, 1, dot - 1)
        fp == SubSeq(body, dot + 1, Len(body))
        ipv == DigitsValue(ip, 0)
    IN  IF Cardinality(dots) <= 1 /\ AllDigits(ip) /\ AllDigits(fp) /\ Len(ip) + Len(fp) > 0
        THEN IF ipv > 100
             THEN [ok |-> TRUE, neg |-> signed /\ Head(t) = "-", num |-> ipv, den |-> 1]
             ELSE [ok |-> TRUE, neg |-> signed /\ Head(t) = "-",
                   num |-> ipv * Pow10(Len(fp)) + DigitsValue(fp, 0), den |-> Pow10(Len(fp))]
        ELSE [ok |-> FALSE, neg |-> FALSE, num |-> 0, den |-> 1]

\* ------------------------------------------------------- float rounding

RECURSIVE PowMod(_, _, _)
PowMod(b, e, m) == IF e = 0 THEN 1 % m ELSE (b * PowMod(b, e - 1, m)) % m

RECURSIVE Log2Up(_, _, _)
Log2Up(num, den, k) == IF den * 2 * 2^k <= num THEN Log2Up(num, den, k + 1) ELSE k

RECURSIVE Log2Down(_, _, _)
Log2Down(num, den, j) == IF num * 2^j < den THEN Log2Down(num, den, j + 1) ELSE j

\* floor(log2(num/den)) for num > 0
Log2Floor(num, den) ==
    IF num >= den THEN Log2Up(num, den, 0) ELSE 0 - Log2Down(num, den, 0)

MantissaBits == 52

\* round(num/den, 1) in tenths, for the IEEE double nearest to num/den:
\* a decimal that lies exactly between two tenths goes the way its double
\* lies (r is the remainder of the scaled mantissa), and to the even tenth
\* when the double is the decimal itself.
RoundMag(num, den) ==
    LET t == (10 * num) \div den
        rem == (10 * num) % den
        e == MantissaBits - Log2Floor(num, den)
        r == ((num % den) * PowMod(2, e, den)) % den
    IN  IF num = 0 THEN 0
        ELSE IF 2 * rem < den THEN t
        ELSE IF 2 * rem > den THEN t + 1
        ELSE IF r = 0 THEN (IF t % 2 = 0 THEN t ELSE t + 1)
        ELSE IF 2 * r > den THEN t + 1 ELSE t

\* round(value, 1), in tenths
Round1(f) == IF f.neg THEN 0 - RoundMag(f.num, f.den) ELSE RoundMag(f.num, f.den)

MinYear == 1993
MinValue == -5
MaxValue == 100

\* faulty variant: strict comparisons
InRange_Strict(year, f, cy) ==
    /\ MinYear < year /\ year < cy
    /\ IF f.neg THEN f.num < (0 - MinValue) * f.den ELSE f.num < MaxValue * f.den

\* 1993 <= year <= current_year and -5.0 <= value <= 100.0
InRange(year, f, cy) ==
    /\ MinYear <= year /\ year <= cy
    /\ IF f.neg THEN f.num <= (0 - MinValue) * f.den ELSE f.num <= MaxValue * f.den

\* ------------------------------------------------------------ csv.reader

EOL == "EOL"
Quote == "\""

SaveField(st) == [st EXCEPT !.fields = Append(st.fields, st.field), !.field = <<>>]
AddChar(st, c) == [st EXCEPT !.field = Append(st.field, c)]
AfterNewline(c) == IF c = EOL THEN "START_RECORD" ELSE "EAT_CRNL"

\* One step of the reader's state machine (excel dialect, delimiter sep).
ProcessChar(st, c, sep) ==
    CASE st.state = "START_RECORD" /\ c = EOL -> st
      [] st.state = "START_RECORD" /\ c \in {"\n", "\r"} -> [st EXCEPT !.state = "EAT_CRNL"]
      [] st.state \in {"START_RECORD", "START_FIELD"} /\ ~(st.state = "START_RECORD" /\ c \in {"\n", "\r", EOL}) ->
            IF c \in {"\n", "\r", EOL} THEN [SaveField(st) EXCEPT !.state = AfterNewline(c)]
            ELSE IF c = Quote THEN [st EXCEPT !.state = "IN_QUOTED_FIELD"]
            ELSE IF c = sep THEN [SaveField(st) EXCEPT !.state = "START_FIELD"]
            ELSE [AddChar(st, c) EXCEPT !.state = "IN_FIELD"]
      [] st.state = "IN_FIELD" ->
            IF c \in {"\n", "\r", EOL} THEN [SaveField(st) EXCEPT !.state = AfterNewline(c)]
            ELSE IF c = sep THEN [SaveField(st) EXCEPT !.state = "START_FIELD"]
            ELSE AddChar(st, c)
      [] st.state = "IN_QUOTED_FIELD" ->
            IF c = EOL THEN st
            ELSE IF c = Quote THEN [st EXCEPT !.state = "QUOTE_IN_QUOTED_FIELD"]
            ELSE AddChar(st, c)
      [] st.state = "QUOTE_IN_QUOTED_FIELD" ->
            IF c = Quote THEN [AddChar(st, c) EXCEPT !.state = "IN_QUOTED_FIELD"]
            ELSE IF c = sep THEN [SaveField(st) EXCEPT !.state = "START_FIELD"]
            ELSE IF c \in {"\n", "\r", EOL} THEN [SaveField(st) EXCEPT !.state = AfterNewline(c)]
            ELSE [AddChar(st, c) EXCEPT !.state = "IN_FIELD"]
      [] st.state = "EAT_CRNL" ->
            IF c \in {"\n", "\r"} THEN st
            ELSE IF c = EOL THEN [st EXCEPT !.state = "START_RECORD"]
            ELSE [st EXCEPT !.err = TRUE]

\* A record is complete when the end of a line leaves the reader in START_RECORD.
EndLine(st, sep) ==
    LET u == ProcessChar(st, EOL, sep)
    IN  IF ~u.err /\ u.state = "START_RECORD"
        THEN [u EXCEPT !.rows = Append(u.rows, u.fields), !.fields = <<>>]
        ELSE u

\* The lines io.StringIO yields end at "\n"; the last one may lack it.
RECURSIVE ReadFrom(_, _, _, _)
ReadFrom(text, i, st, sep) ==
    IF st.err THEN st
    ELSE IF i > Len(text)
    THEN IF st.state = "IN_QUOTED_FIELD"
         THEN LET u == SaveField(st) IN [u EXCEPT !.rows = Append(u.rows, u.fields)]
         ELSE st
    ELSE LET u == ProcessChar(st, text[i], sep)
             v == IF ~u.err /\ (text[i] = "\n" \/ i = Len(text)) THEN EndLine(u, sep) ELSE u
         IN  ReadFrom(text, i + 1, v, sep)

\* list(csv.reader(io.StringIO(raw), delimiter=sep)); err stands for csv.Error
CsvRows(text, sep) ==
    LET st == ReadFrom(text, 1,
                       [state |-> "START_RECORD", field |-> <<>>, fields |-> <<>>,
                        rows |-> <<>>, err |-> FALSE], sep)
    IN  [err |-> st.err, rows |-> st.rows]

\* ------------------------------------------------------------ fetch_data

Seps == <<",", ";", "\t">>

\* c.strip().strip('"').strip("'").replace(",", ".")
Clean(c) == ReplaceComma(Strip(Strip(Strip(c, Whitespace), {Quote}), {"'"}))

\* data after the pair (clean[i], clean[i+1]) was tried
TryPair(d, a, b, cy) ==
    LET y == ParseInt(a)
        f == ParseFloat(b)
    IN  IF y.ok /\ f.ok /\ InRange(y.val, f, cy)
        THEN [k \in DOMAIN d \cup {y.val} |-> IF k = y.val THEN Round1(f) ELSE d[k]]
        ELSE d

RECURSIVE ScanRow(_, _, _, _)
ScanRow(d, clean, i, cy) ==
    IF i > Len(clean) - 1 THEN d
    ELSE ScanRow(TryPair(d, clean[i], clean[i + 1], cy), clean, i + 1, cy)

RECURSIVE ScanRows(_, _, _, _)
ScanRows(d, rows, r, cy) ==
    IF r > Len(rows) THEN d
    ELSE ScanRows(ScanRow(d, [j \in 1..Len(rows[r]) |-> Clean(rows[r][j])], 1, cy),
                  rows, r + 1, cy)

\* faulty variant: rows[2:] instead of rows[1:]
SepPass_SkipTwo(d, text, sep, cy) ==
    LET rd == CsvRows(text, sep)
    IN  IF rd.err THEN [err |-> TRUE, data |-> d]
        ELSE IF Len(rd.rows) < 2 THEN [err |-> FALSE, data |-> d]
        ELSE [err |-> FALSE, data |-> ScanRows(d, rd.rows, 3, cy)]

\* One pass of "for sep in ...": the rows after the first are scanned into d.
SepPass(d, text, sep, cy) ==
    LET rd == CsvRows(text, sep)
    IN  IF rd.err THEN [err |-> TRUE, data |-> d]
        ELSE IF Len(rd.rows) < 2 THEN [err |-> FALSE, data |-> d]
        ELSE [err |-> FALSE, data |-> ScanRows(d, rd.rows, 2, cy)]

\* ------------------------------------------------------- build_raw_block

\* values in tenths: 9.7, 56.6, 11.1
FIXED_HISTORICAL == (1990 :> 97) @@ (1991 :> 566) @@ (1992 :> 111)

\* dict.update(other): keys of other are written over d
Update(d, other) ==
    [k \in DOMAIN d \cup DOMAIN other |-> IF k \in DOMAIN other THEN other[k] ELSE d[k]]

Max(S) == CHOOSE x \in S : \A y \in S : y <= x
Min(S) == CHOOSE x \in S : \A y \in S : x <= y

\* sorted(keys)
RECURSIVE Sorted(_)
Sorted(S) == IF S = {} THEN <<>> ELSE <<Min(S)>> \o Sorted(S \ {Min(S)})

\* str(n) for n >= 0
RECURSIVE NatText(_)
NatText(n) == IF n < 10 THEN <<Digits[n + 1]>> ELSE NatText(n \div 10) \o <<Digits[(n % 10) + 1]>>

\* str(value) of a float with one decimal, given in tenths
FloatText(t) ==
    LET m == IF t < 0 THEN 0 - t ELSE t
    IN  (IF t < 0 THEN <<"-">> ELSE <<>>) \o NatText(m \div 10) \o <<".">> \o NatText(m % 10)

RECURSIVE PadLeft(_, _, _)
PadLeft(s, w, c) == IF Len(s) >= w THEN s ELSE PadLeft(<<c>> \o s, w, c)

ValueWidth == 5

\* strftime('%d. %m. %Y')
DateText(d) ==
    PadLeft(NatText(d.d), 2, "0") \o <<".", " ">> \o PadLeft(NatText(d.m), 2, "0")
        \o <<".", " ">> \o PadLeft(NatText(d.y), 4, "0")

OpenToken ==
    <<"c", "o", "n", "s", "t", " ", "R", "A", "W", " ", "=", " ", "{">>
Note1990 ==
    <<" ", " ", "/", "/", " ", "C", "S", "F", "R", " ", "/", " ", "C", "S", "U", " ",
      "h", "i", "s", "t", ".", " ", "p", "u", "b", "l", "i", "k", "a", "c", "e">>
Note1991 ==
    <<" ", " ", "/", "/", " ", "C", "S", "F", "R", " ", "-", " ", "l", "i", "b", "e",
      "r", "a", "l", "i", "z", "a", "c", "e", " ", "c", "e", "n">>
NoteUpdated ==
    <<" ", " ", "/", "/", " ", "C", "S", "U", ",", " ", "a", "k", "t", "u", "a", "l",
      "i", "z", "o", "v", "a", "n", "o", " ">>

\* faulty variant: the maximum year is tested first
Comment_MaxFirst(year, max_year, date) ==
    IF year = max_year THEN NoteUpdated \o DateText(date)
    ELSE IF year = 1990 THEN Note1990
    ELSE IF year = 1991 THEN Note1991
    ELSE IF year = 1992 THEN Note1990
    ELSE <<>>

\* the if/elif chain that picks a line's comment
Comment(year, max_year, date) ==
    IF year = 1990 THEN Note1990
    ELSE IF year = 1991 THEN Note1991
    ELSE IF year = 1992 THEN Note1990
    ELSE IF year = max_year THEN NoteUpdated \o DateText(date)
    ELSE <<>>

\* "  {}: {:>5},{}".format(year, value, comment)
FormatLine(year, value, comment) ==
    <<" ", " ">> \o NatText(year) \o <<":", " ">> \o PadLeft(FloatText(value), ValueWidth, " ")
        \o <<",">> \o comment

\* faulty variant: the two updates in the other order
Combine_FixedLast(api) == Update(Update(<<>>, api), FIXED_HISTORICAL)

\* combined = {}; combined.update(FIXED_HISTORICAL); combined.update(api_data)
Combine(api) == Update(Update(<<>>, FIXED_HISTORICAL), api)

\* the list "lines" after the loop over sorted(combined.keys())
BuildLines(comb, date) ==
    LET ys == Sorted(DOMAIN comb)
    IN  [i \in 1..Len(ys) |-> FormatLine(ys[i], comb[ys[i]], Comment(ys[i], Max(DOMAIN comb), date))]

\* "\n".join(lines)
RECURSIVE Join(_, _)
Join(ls, c) ==
    IF ls = <<>> THEN <<>>
    ELSE IF Len(ls) = 1 THEN ls[1]
    ELSE ls[1] \o <<c>> \o Join(Tail(ls), c)

\* "const RAW = {\n" + "\n".join(lines) + "\n};"
Envelope(ls) == OpenToken \o <<"\n">> \o Join(ls, "\n") \o <<"\n", "}", ";">>

build_raw_block(api, date) == Envelope(BuildLines(Combine(api), date))

\* ----------------------------------------------------------- update_html

\* whether the literal "const RAW = {" stands at position i of h
OpenAt(h, i) == i + Len(OpenToken) - 1 <= Len(h) /\ SubSeq(h, i, i + Len(OpenToken) - 1) = OpenToken

\* the first position >= j of h that holds "}", or Len(h) + 1
FirstClose(h, j) == Min({k \in j..Len(h) : h[k] = "}"} \cup {Len(h) + 1})

\* faulty variant: the body written [^}]* (an empty body matches)
MatchEnds_Star(h, i) ==
    IF ~OpenAt(h, i) THEN {}
    ELSE LET b == i + Len(OpenToken)
             c == Min({k \in b..Len(h) : h[k] = "}"} \cup {Len(h) + 1})
         IN  IF c + 1 <= Len(h) /\ h[c + 1] = ";" THEN {c + 1} ELSE {}

\* Ends of the matches of  const RAW = \{[^}]+\};  that start at i: the
\* literal, then [^}]+ takes one or more characters and can stop nowhere but
\* before the first "}", which ";" must follow.
MatchEnds(h, i) ==
    IF ~OpenAt(h, i) THEN {}
    ELSE LET b == i + Len(OpenToken)
             c == FirstClose(h, b)
         IN  IF c > b /\ c + 1 <= Len(h) /\ h[c + 1] = ";" THEN {c + 1} ELSE {}

MatchStarts(h) == {i \in 1..Len(h) : MatchEnds(h, i) # {}}

\* faulty variant: the last match instead of the first
Search_Last(h) ==
    IF MatchStarts(h) = {} THEN [found |-> FALSE, start |-> 0, end |-> 0]
    ELSE LET i == Max(MatchStarts(h))
         IN  [found |-> TRUE, start |-> i, end |-> Max(MatchEnds(h, i))]

\* re.search: the leftmost start with a match, the greedy (longest) match there
Search(h) ==
    IF MatchStarts(h) = {} THEN [found |-> FALSE, start |-> 0, end |-> 0]
    ELSE LET i == Min(MatchStarts(h))
         IN  [found |-> TRUE, start |-> i, end |-> Max(MatchEnds(h, i))]

\* faulty variant: the replaced span ends one character early
Sub1_OffByOne(h, repl) ==
    LET m == Search(h)
    IN  IF ~m.found THEN h
        ELSE SubSeq(h, 1, m.start - 1) \o repl \o SubSeq(h, m.end, Len(h))

\* re.sub(pattern, repl, h, count=1); repl holds no backslash, so the
\* replacement template is repl itself
Sub1(h, repl) ==
    LET m == Search(h)
    IN  IF ~m.found THEN h
        ELSE SubSeq(h, 1, m.start - 1) \o repl \o SubSeq(h, m.end + 1, Len(h))

\* What one call update_html(new_raw_block) does to index.html with content
\* f, which can be opened for reading iff r and for writing iff w.
\* ret is what the call returns; "OSError" stands for the exception open() raises.
update_html(f, r, w, new_raw_block) ==
    LET found == Search(f).found
        sub == IF found THEN Sub1(f, new_raw_block) ELSE <<>>
    IN  IF ~r
        THEN [ret |-> "OSError", file |-> f, html |-> <<>>, new_html |-> <<>>,
              read |-> 0, wrote |-> 0, diag |-> <<>>]
        ELSE IF ~found
        THEN [ret |-> "False", file |-> f, html |-> f, new_html |-> <<>>, read |-> 1,
              wrote |-> 0, diag |-> <<"CHYBA: Blok 'const RAW' nebyl v index.html nalezen.">>]
        ELSE IF sub = f
        THEN [ret |-> "False", file |-> f, html |-> f, new_html |-> sub,
              read |-> 1, wrote |-> 0, diag |-> <<>>]
        ELSE IF ~w
        THEN [ret |-> "OSError", file |-> f, html |-> f, new_html |-> sub,
              read |-> 1, wrote |-> 0, diag |-> <<>>]
        ELSE [ret |-> "True", file |-> sub, html |-> f, new_html |-> sub,
              read |-> 1, wrote |-> 1, diag |-> <<>>]

Traceback == "Traceback (most recent call last)"

\* ------------------------------------------------------------ input sets

MaxRows == 2      \* data rows after the first row of a response
MaxPieces == 3    \* pieces index.html is put together from
MaxCalls == 2     \* update_html calls in a row on the same file
MaxApiYears == 2  \* years from 1993 on that a mapping handed to build_raw_block may hold

\* rows "year<sep>value" at the ends of both accepted ranges
Y1993 == <<"1", "9", "9", "3">>
Y1994 == <<"1", "9", "9", "4">>
VLow == <<"-", "5", ".", "0">>
VHigh == <<"1", "0", "0", ".", "0">>
PairRow(y, d, v) == y \o <<d>> \o v
PairRows == {PairRow(Y1993, Seps[k], VLow) : k \in 1..3} \cup {PairRow(Y1994, Seps[k], VHigh) : k \in 1..3}

OtherRows ==
    { <<"1", "9", "9", "2", ",", "2", ".", "0">>,                      \* 1992,2.0
      <<"1", "9", "9", "5", ";", "2", ".", "0">>,                      \* 1995;2.0
      <<"1", "9", "9", "3", "\t", "-", "5", ".", "1">>,                \* 1993<TAB>-5.1
      <<"1", "9", "9", "4", ",", "1", "0", "0", ".", "1">>,            \* 1994,100.1
      <<"1", "9", "9", "3", ";", "2", ",", "2", "5">>,                 \* 1993;2,25
      <<"\"", "1", "9", "9", "4", "\"", ",", "\"", "2", ".", "0", "\"">>,  \* "1994","2.0"
      <<"1", "9", "9", "3", ",", "1", "9", "9", "4", ",", "2", ".", "0">>, \* 1993,1994,2.0
      <<" ", "1", "9", "9", "3", " ", ",", " ", "3", ".", "0", "\r">>, \* padded, CR before LF
      <<"x", "\r", "x">>,                                              \* bare CR inside a line
      <<>> }                                                           \* blank line

RowSet == PairRows \cup OtherRows

\* the first row: a header, or a row that already holds data
FirstRows == {<<"r", "o", "k">>, <<"1", "9", "9", "3", ",", "2", ".", "0">>}

RECURSIVE RowSeqs(_)
RowSeqs(n) ==
    IF n = 0 THEN {<<>>}
    ELSE RowSeqs(n - 1) \cup {Append(rs, r) : rs \in {q \in RowSeqs(n - 1) : Len(q) = n - 1}, r \in RowSet}

\* response texts: a first row, then up to n rows, joined by "\n"
Texts(n) == {Join(<<f>> \o rs, "\n") : f \in FirstRows, rs \in RowSeqs(n)}

CurrentYears == {1994, 1995}
Dates == {[d |-> 3, m |-> 11, y |-> 2026], [d |-> 10, m |-> 11, y |-> 2026]}
Date0 == [d |-> 3, m |-> 11, y |-> 2026]

\* responses of a whole run: every way a run can end
MainResponses ==
    {NoResponse} \cup {Answer(t) : t \in {<<>>, <<" ", "\n", " ">>, <<"\r", " ", "\n">>} \cup Texts(1)}

ApiYears == 1991..(1992 + MaxApiYears)
ApiValues == {20, -50}
ApiMaps ==
    UNION {[ys -> ApiValues] : ys \in SUBSET ApiYears}

BlockInputs ==
    { <<(1993 :> 20), [d |-> 3, m |-> 11, y |-> 2026]>>,
      <<(1993 :> 20) @@ (1994 :> -50), [d |-> 10, m |-> 11, y |-> 2026]>> }
Blocks == {build_raw_block(x[1], x[2]) : x \in BlockInputs}

OldBlock == OpenToken \o <<"x", "}", ";">>
Pieces == {OpenToken, <<"}">>, <<";">>, <<"x">>, OldBlock, build_raw_block((1993 :> 20), Date0)}

RECURSIVE PieceSeqs(_)
PieceSeqs(n) ==
    IF n = 0 THEN {<<>>}
    ELSE PieceSeqs(n - 1) \cup {Append(ps, q) : ps \in {r \in PieceSeqs(n - 1) : Len(r) = n - 1}, q \in Pieces}

Docs(n) == {Concat(ps) : ps \in PieceSeqs(n)}

\* --------------------------------------------------------------- actions

InitCommon ==
    /\ raw = <<>> /\ sep_idx = 0 /\ data = <<>>
    /\ combined = <<>> /\ lines = <<>> /\ new_block = <<>>
    /\ html = <<>> /\ new_html = <<>> /\ ret = None
    /\ reads = 0 /\ writes = 0 /\ stderr = <<>> /\ exit_status = <<>>
    /\ calls = 0 /\ log = <<>>

\* fetch_data up to the for loop: urlopen + decode, or the except branch
Urlopen ==
    /\ pc = "fetch"
    /\ IF ~response.ok
       THEN /\ stderr' = Append(stderr, "CHYBA pri stahovani")
            /\ api_data' = <<>>
            /\ pc' = "main"
            /\ UNCHANGED <<raw, sep_idx, data>>
       ELSE /\ raw' = response.text
            /\ data' = <<>>
            /\ sep_idx' = 1
            /\ pc' = "parse"
            /\ UNCHANGED <<stderr, api_data>>
    /\ UNCHANGED <<response, current_year, today, combined, lines, new_block, file, readable, writable,
                   html, new_html, ret, reads, writes, exit_status, calls, log>>

\* faulty variant: no break, every candidate is tried
AfterPass_NoBreak(d, i) ==
    IF i = Len(Seps) THEN [pc |-> "parsed", sep_idx |-> i]
    ELSE [pc |-> "parse", sep_idx |-> i + 1]

\* what the loop does after the pass of candidate i left data d
AfterPass(d, i) ==
    IF d # <<>> \/ i = Len(Seps) THEN [pc |-> "parsed", sep_idx |-> i]
    ELSE [pc |-> "parse", sep_idx |-> i + 1]

\* one iteration of "for sep in (",", ";", "\t")"; csv.Error is not caught
TrySep ==
    /\ pc = "parse"
    /\ LET p == SepPass(data, raw, Seps[sep_idx], current_year)
           nx == AfterPass(p.data, sep_idx)
       IN  IF p.err
           THEN /\ stderr' = Append(stderr, Traceback)
                /\ exit_status' = <<1>>
                /\ pc' = "exit"
                /\ UNCHANGED <<data, sep_idx>>
           ELSE /\ data' = p.data
                /\ pc' = nx.pc
                /\ sep_idx' = nx.sep_idx
                /\ UNCHANGED <<stderr, exit_status>>
    /\ UNCHANGED <<response, raw, current_year, today, api_data, combined, lines, new_block, file, readable,
                   writable, html, new_html, ret, reads, writes, calls, log>>

\* the end of fetch_data: the summary or the warning, and return data
FetchReturn ==
    /\ pc = "parsed"
    /\ stderr' = IF data = <<>> THEN Append(stderr, "VAROVANI: Z API nebyla nactena zadna data.")
                 ELSE stderr
    /\ api_data' = data
    /\ pc' = "main"
    /\ UNCHANGED <<response, raw, current_year, today, sep_idx, data, combined, lines, new_block, file, readable,
                   writable, html, new_html, ret, reads, writes, exit_status, calls, log>>

\* __main__: "if not api_data: ... sys.exit(0)"
MainNoData ==
    /\ pc = "main"
    /\ api_data = <<>>
    /\ exit_status' = <<0>>
    /\ pc' = "exit"
    /\ UNCHANGED <<response, raw, current_year, today, sep_idx, data, api_data, combined, lines,
                   new_block, file, readable, writable, html, new_html, ret, reads, writes, stderr,
                   calls, log>>

\* the body of build_raw_block(api_data)
Build ==
    /\ combined' = Combine(api_data)
    /\ lines' = BuildLines(Combine(api_data), today)
    /\ new_block' = build_raw_block(api_data, today)

\* __main__: new_block = build_raw_block(api_data)
MainBuild ==
    /\ pc = "main"
    /\ api_data # <<>>
    /\ Build
    /\ pc' = "patch"
    /\ UNCHANGED <<response, raw, current_year, today, sep_idx, data, api_data, file, readable, writable, html,
                   new_html, ret, reads, writes, stderr, exit_status, calls, log>>

\* the state after a call update_html(b) with outcome r
Called(b, r) ==
    /\ file' = r.file
    /\ html' = r.html
    /\ new_html' = r.new_html
    /\ ret' = r.ret
    /\ reads' = reads + r.read
    /\ writes' = writes + r.wrote
    /\ calls' = calls + 1
    /\ log' = Append(log, [block |-> b, ret |-> r.ret, wrote |-> r.wrote, diag |-> r.diag])

\* __main__: update_html(new_block); sys.exit(0).  An exception that
\* update_html raises ends the process with a traceback and status 1.
MainPatch ==
    /\ pc = "patch"
    /\ LET r == update_html(file, readable, writable, new_block)
       IN  /\ Called(new_block, r)
           /\ stderr' = IF r.ret = "OSError" THEN Append(stderr, Traceback) ELSE stderr \o r.diag
           /\ exit_status' = IF r.ret = "OSError" THEN <<1>> ELSE <<0>>
    /\ pc' = "exit"
    /\ UNCHANGED <<response, raw, current_year, today, sep_idx, data, api_data, combined, lines,
                   new_block, readable, writable>>

\* build_raw_block applied to a mapping of any keys
BuildCall ==
    /\ pc = "build"
    /\ Build
    /\ pc' = "built"
    /\ UNCHANGED <<response, raw, current_year, today, sep_idx, data, api_data, file, readable, writable, html,
                   new_html, ret, reads, writes, stderr, exit_status, calls, log>>

\* update_html applied again and again to the same file (one call per run)
PatchCall ==
    /\ pc = "patching"
    /\ calls < MaxCalls
    /\ \E b \in Blocks :
          LET r == update_html(file, readable, writable, b)
          IN  /\ Called(b, r)
              /\ stderr' = IF r.ret = "OSError" THEN Append(stderr, Traceback) ELSE stderr \o r.diag
              /\ new_block' = b
    /\ UNCHANGED <<pc, response, raw, current_year, today, sep_idx, data, api_data, combined, lines,
                   readable, writable, exit_status>>

\* -------------------------------------------------------- specifications

\* a whole run of the script
Init ==
    /\ InitCommon
    /\ pc = "fetch"
    /\ response \in MainResponses
    /\ api_data = <<>>
    /\ current_year \in CurrentYears
    /\ today = Date0
    /\ file \in Docs(1)
    /\ readable \in BOOLEAN
    /\ writable \in BOOLEAN

Next == Urlopen \/ TrySep \/ FetchReturn \/ MainNoData \/ MainBuild \/ MainPatch

Spec == Init /\ [][Next]_vars

\* fetch_data on response texts
InitFetch ==
    /\ InitCommon
    /\ pc = "fetch"
    /\ response \in {NoResponse} \cup {Answer(t) : t \in {<<>>} \cup Texts(MaxRows)}
    /\ api_data = <<>>
    /\ current_year \in CurrentYears
    /\ today = Date0
    /\ file = OldBlock
    /\ readable = TRUE
    /\ writable = TRUE

NextFetch == Urlopen \/ TrySep \/ FetchReturn

SpecFetch == InitFetch /\ [][NextFetch]_vars

\* build_raw_block on mappings
InitBuild ==
    /\ InitCommon
    /\ pc = "build"
    /\ response = NoResponse
    /\ current_year = 1994
    /\ today \in Dates
    /\ api_data \in ApiMaps
    /\ file = OldBlock
    /\ readable = TRUE
    /\ writable = TRUE

NextBuild == BuildCall

SpecBuild == InitBuild /\ [][NextBuild]_vars

\* update_html on documents
InitPatch ==
    /\ InitCommon
    /\ pc = "patching"
    /\ response = NoResponse
    /\ api_data = <<>>
    /\ current_year = 1994
    /\ today = Date0
    /\ file \in Docs(MaxPieces)
    /\ readable = TRUE
    /\ writable = TRUE

NextPatch == PatchCall

SpecPatch == InitPatch /\ [][NextPatch]_vars

\* ------------------------------------------------------------ properties

Last(q) == q[Len(q)]

\* h[s..e] is an occurrence of the marker pattern: the opening token, one or
\* more characters other than "}", then "}" and ";"
IsMarker(h, s, e) ==
    /\ OpenAt(h, s)
    /\ s + Len(OpenToken) + 2 <= e /\ e <= Len(h)
    /\ \A j \in s + Len(OpenToken)..e - 2 : h[j] # "}"
    /\ h[e - 1] = "}"
    /\ h[e] = ";"

MarkerSpans(h) ==
    {se \in {i \in 1..Len(h) : OpenAt(h, i)} \X {i \in 1..Len(h) : h[i] = ";"} :
        IsMarker(h, se[1], se[2])}

MissingMarkerDiag == "CHYBA: Blok 'const RAW' nebyl v index.html nalezen."

\* C1: patch idempotence.  When a call of update_html found a marker block
\* and the next call is made with the same new_block, that next call returns
\* False through the "no change" branch (no "marker missing" diagnostic) and
\* writes nothing: the file still is what the first call left.
C1_Idempotent ==
    (/\ Len(log) >= 2
     /\ log[Len(log) - 1].block = Last(log).block
     /\ log[Len(log) - 1].diag = <<>>)
    => /\ Last(log).ret = "False"
       /\ Last(log).diag = <<>>
       /\ Last(log).wrote = 0
       /\ file = html
       /\ new_html = html

C1_Witness ==
    /\ Len(log) = 2
    /\ log[1].block = log[2].block
    /\ log[1].ret = "True"
    /\ log[2].ret = "False"
    /\ writes = 1

\* C2: missing marker.  When the text read holds no occurrence of the marker
\* pattern, update_html returns False, prints the diagnostic to stderr and
\* does not write: the file is the text that was read.
C2_MissingMarker ==
    (Len(log) >= 1 /\ MarkerSpans(html) = {})
    => /\ ret = "False"
       /\ Last(log).diag = <<MissingMarkerDiag>>
       /\ stderr # <<>> /\ Last(stderr) = MissingMarkerDiag
       /\ Last(log).wrote = 0
       /\ file = html

\* the case reached: a file with the opening token, but no complete block
C2_Witness ==
    /\ Len(log) >= 1
    /\ MarkerSpans(html) = {}
    /\ \E i \in 1..Len(html) : OpenAt(html, i)
    /\ ret = "False"
    /\ Last(stderr) = MissingMarkerDiag

\* C10: patch frame.  When the text read holds a marker block, the updated
\* text is the text before the first occurrence, new_block, and the text
\* after that occurrence; the occurrence holds no "}" but its closing one;
\* the file is written at most once, and exactly when the updated text
\* differs from the text read.
C10_Frame ==
    (Len(log) >= 1 /\ MarkerSpans(html) # {})
    => /\ LET spans == MarkerSpans(html)
          IN  \E se \in spans :
             /\ \A o \in spans : se[1] <= o[1]
             /\ new_html = SubSeq(html, 1, se[1] - 1) \o Last(log).block
                               \o SubSeq(html, se[2] + 1, Len(html))
             /\ \A j \in se[1]..se[2] - 2 : html[j] # "}"
       /\ Last(log).wrote = (IF new_html # html THEN 1 ELSE 0)
       /\ file = new_html
       /\ writes <= calls

\* the case reached: two marker blocks in the file, the first one rewritten
C10_Witness ==
    /\ Len(log) = 1
    /\ Cardinality({se[1] : se \in MarkerSpans(html)}) >= 2
    /\ ret = "True"
    /\ file # html

\* the mapping one delimiter candidate yields on its own
Alone(k) == SepPass(<<>>, raw, Seps[k], current_year).data

\* the candidates that yield at least one accepted pair
Yielding == {k \in 1..Len(Seps) : Alone(k) # <<>>}

Returned == pc = "main" /\ response.ok

C5_Values == {-50, 20, 1000}

\* the lines of a text, split at "\n"
RECURSIVE SplitLines(_)
SplitLines(t) ==
    LET nl == {i \in 1..Len(t) : t[i] = "\n"}
    IN  IF nl = {} THEN <<t>>
        ELSE <<SubSeq(t, 1, Min(nl) - 1)>> \o SplitLines(SubSeq(t, Min(nl) + 1, Len(t)))

LaterCells(rows, r, i) ==
    {rows[r][j] : j \in {n \in 1..Len(rows[r]) : n > i}}
        \cup UNION {{rows[q][j] : j \in 1..Len(rows[q])} : q \in {n \in 1..Len(rows) : n > r}}

HoldsYear(cell, y) == ParseInt(Clean(cell)).ok /\ ParseInt(Clean(cell)).val = y

Header == <<"r", "o", "k">>

\* C6: range invariant.  Every entry of the parser's mapping has
\* 1993 <= year <= current_year and -5.0 <= value <= 100.0; the four ends of
\* the ranges are accepted (a row 1993,-5.0 or current_year,100.0 after a
\* header is returned as it stands).
C6_Range ==
    /\ \A y \in DOMAIN data :
          MinYear <= y /\ y <= current_year /\ -50 <= data[y] /\ data[y] <= 1000
    /\ \A y \in DOMAIN api_data :
          MinYear <= y /\ y <= current_year /\ -50 <= api_data[y] /\ api_data[y] <= 1000
    /\ \A k \in 1..Len(Seps) :
          /\ (Returned /\ raw = Join(<<Header, PairRow(Y1993, Seps[k], VLow)>>, "\n"))
                => api_data = (1993 :> -50)
          /\ (Returned /\ current_year = 1994
                /\ raw = Join(<<Header, PairRow(Y1994, Seps[k], VHigh)>>, "\n"))
                => api_data = (1994 :> 1000)

\* the case reached: both ends of both ranges in one returned mapping
C6_Witness ==
    /\ Returned
    /\ current_year = 1994
    /\ api_data = (1993 :> -50) @@ (1994 :> 1000)

\* C8: delimiter priority.  The returned mapping is what the first yielding
\* candidate (in the order comma, semicolon, tab) yields on its own, or empty
\* when none yields; the loop stops at that candidate; while the loop runs no
\* earlier candidate has yielded anything.
C8_Priority ==
    /\ (pc \in {"parsed", "main"} /\ response.ok) =>
          /\ data = (IF Yielding = {} THEN <<>> ELSE Alone(Min(Yielding)))
          /\ sep_idx = (IF Yielding = {} THEN Len(Seps) ELSE Min(Yielding))
          /\ pc = "main" => api_data = data
    /\ pc = "parse" => (data = <<>> /\ \A k \in Yielding : k >= sep_idx)

\* the case reached: comma yields, semicolon would yield other pairs
C8_Witness ==
    /\ Returned
    /\ sep_idx = 1
    /\ api_data # <<>>
    /\ Alone(2) # <<>>
    /\ DOMAIN Alone(2) # DOMAIN api_data

Built == pc = "built"

\* C7: merge.  The combined series has the keys of FIXED_HISTORICAL and of
\* the fetched mapping, maps every fetched year to its fetched value and every
\* other fixed year to its fixed value; with fetched years all >= 1993 (all
\* the parser returns, C6) 1990, 1991 and 1992 keep 9.7, 56.6 and 11.1.
C7_Merge ==
    Built =>
        /\ DOMAIN combined = DOMAIN FIXED_HISTORICAL \cup DOMAIN api_data
        /\ \A y \in DOMAIN api_data : combined[y] = api_data[y]
        /\ \A y \in DOMAIN FIXED_HISTORICAL \ DOMAIN api_data : combined[y] = FIXED_HISTORICAL[y]
        /\ (\A y \in DOMAIN api_data : y >= MinYear)
              => (combined[1990] = 97 /\ combined[1991] = 566 /\ combined[1992] = 111)

\* the case reached: a fetched mapping that overlaps the fixed years
C7_Witness ==
    /\ Built
    /\ 1991 \in DOMAIN api_data /\ 1993 \in DOMAIN api_data
    /\ combined[1991] = api_data[1991]
    /\ combined[1991] # FIXED_HISTORICAL[1991]
    /\ combined[1990] = 97

\* the i-th smallest key of a mapping
YearAt(m, i) == CHOOSE y \in DOMAIN m : Cardinality({z \in DOMAIN m : z < y}) = i - 1

UpdatedNote == NoteUpdated \o DateText(today)

\* the annotation the claim gives a year
C9_Note(y) ==
    IF y \in {1990, 1992} THEN Note1990
    ELSE IF y = 1991 THEN Note1991
    ELSE IF y = Max(DOMAIN combined) THEN UpdatedNote
    ELSE <<>>

EndsWith(t, suffix) ==
    Len(suffix) <= Len(t) /\ SubSeq(t, Len(t) - Len(suffix) + 1, Len(t)) = suffix

\* C9: serializer.  One line per year of the combined series, in ascending
\* year order; 1990, 1991 and 1992 carry their fixed notes; the "updated"
\* note is on the line of the maximum year iff that year is none of the
\* three; no other line is annotated; at most one line carries the "updated"
\* note, and with fetched years >= 1993 it is the last line.
C9_Lines ==
    Built =>
        /\ Len(lines) = Cardinality(DOMAIN combined)
        /\ \A i \in 1..Len(lines) :
              lines[i] = FormatLine(YearAt(combined, i), combined[YearAt(combined, i)], <<>>)
                             \o C9_Note(YearAt(combined, i))
        /\ \A i \in 1..Len(lines) :
              EndsWith(lines[i], UpdatedNote)
                  <=> (/\ YearAt(combined, i) = Max(DOMAIN combined)
                       /\ YearAt(combined, i) \notin {1990, 1991, 1992})
        /\ Cardinality({i \in 1..Len(lines) : EndsWith(lines[i], UpdatedNote)}) <= 1
        /\ (api_data # <<>> /\ \A y \in DOMAIN api_data : y >= MinYear)
              => EndsWith(lines[Len(lines)], UpdatedNote)
        /\ new_block = OpenToken \o <<"\n">> \o Join(lines, "\n") \o <<"\n", "}", ";">>

\* the case reached: fetched years after 1992, the last line is the updated one
C9_Witness ==
    /\ Built
    /\ DOMAIN api_data = {1993, 1994}
    /\ Len(lines) = 5
    /\ EndsWith(lines[5], UpdatedNote)
    /\ ~EndsWith(lines[4], UpdatedNote)

Exited == pc = "exit"

AllWhitespace(t) == \A i \in 1..Len(t) : t[i] \in Whitespace

\* no delimiter candidate yields an accepted pair from text t
NoPair(t) == \A k \in 1..Len(Seps) : SepPass(<<>>, t, Seps[k], current_year).data = <<>>

\* C3 as claimed: a run whose response yields no data (transport failure, an
\* empty or whitespace-only text, no accepted pair under any candidate) ends
\* with status 0, builds no block and neither reads nor writes index.html.
C3_NoDataNoTouch ==
    (Exited /\ (~response.ok \/ AllWhitespace(response.text) \/ NoPair(response.text)))
    => /\ exit_status = <<0>>
       /\ new_block = <<>>
       /\ reads = 0 /\ writes = 0 /\ calls = 0

\* C4 as claimed: every run ends with status 0 and no uncaught error.
C4_ExitZero ==
    Exited => (exit_status = <<0>> /\ \A i \in 1..Len(stderr) : stderr[i] # Traceback)

====
